---- MODULE Spec2Model ----
(***************************************************************************)
(* State-machine model of the status-bar headline scroller in              *)
(* src/src/extension.ts.  The file holds three revisions of the extension: *)
(*   variant 1  (lines 1-168)    NPR feed, fixed URL                       *)
(*   variant 2  (lines 170-336)  per-headline scroller with toggle command *)
(*   variant 3  (lines 338-550)  NPR feed, topic read from configuration   *)
(* Strings are sequences of one-character strings, so that substring,      *)
(* padding and concatenation are computed as the code computes them.       *)
(***************************************************************************)
EXTENDS Integers, Sequences, FiniteSets, Bags, TLC

VARIABLES
    variant,               \* which revision of activate() is running
    scrollableText,        \* module-level let (variants 1, 3)
    statusBarItem,         \* statusBarItem.text
    scrollIndex,           \* the scroll cursor
    scrollInterval,        \* handle held by scrollInterval / scrollIntervalId
    refetchInterval,       \* handle held by refetchInterval
    isCurrentlyScrolling,  \* the scroll-state flag
    headlines,             \* variant 2: list of headline entries
    currentHeadlineIndex,  \* variant 2
    feedTopic,             \* configuration value news-headlines.feedTopic
    scrollTimers,          \* runtime: live intervals created by startScrolling
    refetchTimers,         \* runtime: live intervals created for refetching
    initialFetchTimeout,   \* runtime: "pending", "fired" or "cleared"
    subscriptions,         \* context.subscriptions (names of the disposables)
    disposed,              \* the subscriptions have been disposed (shutdown)
    pending,               \* bag of fetches awaiting their response
    ticks,                 \* history: ticks run since the last startScrolling
    lastResponse,          \* history: response consumed by the last fetchHeadlines
    fetchThrew,            \* history: some fetchHeadlines call rejected
    entryFromStart,        \* history (variant 2): every offset below the cursor
                           \* has been rendered since the current entry of
                           \* headlines became the current one
    lastEvent              \* history: the handler that ran last, <<name>> or
                           \* <<"fetchDone", caller of the fetch, its URL>>

vars == <<variant, scrollableText, statusBarItem, scrollIndex, scrollInterval,
          refetchInterval, isCurrentlyScrolling, headlines, currentHeadlineIndex,
          feedTopic, scrollTimers, refetchTimers, initialFetchTimeout,
          subscriptions, disposed, pending, ticks, lastResponse, fetchThrew,
          entryFromStart, lastEvent>>

---------------------------------------------------------------------------
(* Bounds of the model *)

\* fetches that may be awaiting a response at the same time
MaxPending == 2

\* refetch intervals that may be live at the same time
MaxTimers == 2

\* ticks followed after one startScrolling in the scheduling specification
MaxTicks == 2

\* ticks followed after one startScrolling in the rendering specification
MaxScrollTicks == 42

\* longest item list of a feed in the reduction specification
MaxItems == 3

---------------------------------------------------------------------------
(* String constants of the source *)

IntroText ==
    <<"H", "e", "a", "d", "l", "i", "n", "e", "s", " ", "b", "r", "o", "u", "g",
      "h", "t", " ", "t", "o", " ", "y", "o", "u", " ", "b", "y", " ", "N", "P",
      "R">>

FetchingText ==
    <<"F", "e", "t", "c", "h", "i", "n", "g", " ", "l", "a", "t", "e", "s", "t",
      " ", "h", "e", "a", "d", "l", "i", "n", "e", "s", ".", ".", ".">>

ErrorText ==
    <<"E", "r", "r", "o", "r", " ", "f", "e", "t", "c", "h", "i", "n", "g", " ",
      "h", "e", "a", "d", "l", "i", "n", "e", "s">>

NoHeadlinesText ==
    <<"N", "o", " ", "h", "e", "a", "d", "l", "i", "n", "e", "s", " ", "f", "o",
      "u", "n", "d">>

LoadingText ==
    <<"L", "o", "a", "d", "i", "n", "g", " ", "h", "e", "a", "d", "l", "i", "n",
      "e", "s", ".", ".", ".">>

NoHeadlinesShortText ==
    <<"N", "o", " ", "h", "e", "a", "d", "l", "i", "n", "e", "s">>

HelloWorldText == <<"H", "e", "l", "l", "o", " ", "W", "o", "r", "l", "d">>

\* the em dash U+2014, one character of a string
EmDash == "--"

Separator == <<" ", EmDash, " ">>

Dash == <<EmDash>>

minLengthForScrolling == 40

Undefined == 0

---------------------------------------------------------------------------
(* Values the XML parser hands to fetchHeadlines *)

UndefinedTitle == [kind |-> "undefined", chars |-> <<>>]
NullTitle == [kind |-> "null", chars |-> <<>>]
Str(s) == [kind |-> "string", chars |-> s]

TitleA == Str(<<"A">>)
TitleB == Str(<<"B">>)
TitleEmpty == Str(<<>>)
LongTitle ==
    Str(<<"S", "e", "n", "a", "t", "e", " ", "p", "a", "s", "s", "e", "s", " ",
          "t", "h", "e", " ", "b", "u", "d", "g", "e", "t", " ", "a", "f", "t",
          "e", "r", " ", "l", "o", "n", "g", " ", "v", "o", "t", "e", "s">>)

Item(t) == [title |-> t]

\* jsonObj.rss.channel.item: absent, one object, or an array of objects
NoItem == [shape |-> "absent", object |-> Item(UndefinedTitle), array |-> <<>>]
OneItem(t) == [shape |-> "object", object |-> Item(t), array |-> <<>>]
ItemArray(ts) ==
    [shape |-> "array", object |-> Item(UndefinedTitle),
     array |-> [i \in 1..Len(ts) |-> Item(ts[i])]]

\* what one fetch can come back with
NotOk == [kind |-> "notOk", item |-> NoItem]
NetworkException == [kind |-> "networkException", item |-> NoItem]
ParserException == [kind |-> "parserException", item |-> NoItem]
Ok(item) == [kind |-> "ok", item |-> item]
NoResponse == [kind |-> "none", item |-> NoItem]

---------------------------------------------------------------------------
(* Pure helpers, computed as the JavaScript computes them *)

\* ' '.repeat(n)
RECURSIVE Spaces(_)
Spaces(n) == IF n <= 0 THEN <<>> ELSE <<" ">> \o Spaces(n - 1)

\* s.substring(from) and s.substring(0, to), zero-based
SubstringFrom(s, from) == SubSeq(s, from + 1, Len(s))
SubstringTo(s, to) == SubSeq(s, 1, to)

\* String(x) as Array.prototype.join applies it: null and undefined give ""
JoinString(t) == IF t.kind = "string" THEN t.chars ELSE <<>>

\* titles.join(sep)
RECURSIVE Join(_, _)
Join(ts, sep) ==
    IF Len(ts) = 0 THEN <<>>
    ELSE IF Len(ts) = 1 THEN JoinString(ts[1])
    ELSE JoinString(ts[1]) \o sep \o Join(Tail(ts), sep)

\* Array.isArray(item) ? item : [item]
ItemsOf(item) == IF item.shape = "array" THEN item.array ELSE <<item.object>>

\* the filter predicate: title !== undefined
IsTitle(t) == t.kind # "undefined"

\* ts.filter(IsTitle)
RECURSIVE FilterTitles(_)
FilterTitles(ts) ==
    IF Len(ts) = 0 THEN <<>>
    ELSE IF IsTitle(ts[1]) THEN <<ts[1]>> \o FilterTitles(Tail(ts))
    ELSE FilterTitles(Tail(ts))

\* items.map(item => item.title).filter(title => title !== undefined)
TitlesOf(items) == FilterTitles([i \in 1..Len(items) |-> items[i].title])

\* if (jsonObj.rss && jsonObj.rss.channel && jsonObj.rss.channel.item)
HasItem(item) == item.shape # "absent"

---------------------------------------------------------------------------
(* The feed URL *)

\* property names every object literal inherits from Object.prototype
ObjectPrototypeKeys == {"constructor", "toString", "valueOf", "hasOwnProperty"}

\* TOPIC_MAP[name]; a name that is no key of the table gives undefined
TOPIC_MAP(name) ==
    CASE name = "News" -> "1001"
      [] name = "World" -> "1004"
      [] name = "Business" -> "1006"
      [] name = "Science" -> "1007"
      [] name = "Culture" -> "1008"
      [] name \in ObjectPrototypeKeys -> "inherited"
      [] OTHER -> "undefined"

\* TOPIC_MAP[topicName] || TOPIC_MAP['News'], placed in the URL template
getRssFeedUrl(topicName) ==
    LET topicId == IF TOPIC_MAP(topicName) # "undefined"
                   THEN TOPIC_MAP(topicName) ELSE TOPIC_MAP("News")
    IN <<"https://feeds.npr.org/", topicId, "/rss.xml">>

\* const RssFeedUrl of variants 1 and 2
RssFeedUrl(v) ==
    IF v = 2 THEN <<"https://rss.nytimes.com/services/xml/rss/nyt/HomePage.xml">>
    ELSE <<"https://feeds.npr.org/", "1001", "/rss.xml">>

\* the URL fetchHeadlines requests
CurrentRssFeedUrl(v, topicName) ==
    IF v = 3 THEN getRssFeedUrl(topicName) ELSE RssFeedUrl(v)

---------------------------------------------------------------------------
(* The mutable state the scroll and fetch functions work on, as one record, *)
(* so that a handler is the composition of the functions it calls.          *)

Cur ==
    [scrollableText |-> scrollableText,
     statusBarItem |-> statusBarItem,
     scrollIndex |-> scrollIndex,
     scrollInterval |-> scrollInterval,
     isCurrentlyScrolling |-> isCurrentlyScrolling,
     scrollTimers |-> scrollTimers,
     headlines |-> headlines,
     currentHeadlineIndex |-> currentHeadlineIndex]

Install(s) ==
    /\ scrollableText' = s.scrollableText
    /\ statusBarItem' = s.statusBarItem
    /\ scrollIndex' = s.scrollIndex
    /\ scrollInterval' = s.scrollInterval
    /\ isCurrentlyScrolling' = s.isCurrentlyScrolling
    /\ scrollTimers' = s.scrollTimers
    /\ headlines' = s.headlines
    /\ currentHeadlineIndex' = s.currentHeadlineIndex

\* setInterval: a handle distinct from every live one and from the one held
NewTimer(used) ==
    CHOOSE i \in 1..(Cardinality(used) + 1) :
        i \notin used /\ \A j \in 1..(i - 1) : j \in used

\* clearInterval / clearTimeout: cancels that timer, a no-op on a dead handle
clearInterval(timers, handle) == timers \ {handle}

---------------------------------------------------------------------------
(* fetchHeadlines, from the point where the response has arrived *)

\* the reduction without the titles.length > 0 test
DisplayTextNoLengthTest(item) ==
    IF HasItem(item) THEN Join(TitlesOf(ItemsOf(item)), Separator) ELSE NoHeadlinesText

\* lines 41-52 / 389-400: the display text of a parsed feed
DisplayText(item) ==
    IF HasItem(item)
    THEN LET titles == TitlesOf(ItemsOf(item))
         IN IF Len(titles) > 0 THEN Join(titles, Separator) ELSE NoHeadlinesText
    ELSE NoHeadlinesText

\* variant 1: every path writes the text to the status bar
fetchHeadlines1(resp, s) ==
    IF resp.kind = "notOk"
    THEN [s |-> [s EXCEPT !.scrollableText = ErrorText, !.statusBarItem = ErrorText],
          threw |-> FALSE]
    ELSE IF resp.kind \in {"networkException", "parserException"}
    THEN \* catch (error)
         [s |-> [s EXCEPT !.scrollableText = ErrorText, !.statusBarItem = ErrorText],
          threw |-> FALSE]
    ELSE [s |-> [s EXCEPT !.scrollableText = DisplayText(resp.item),
                          !.statusBarItem = DisplayText(resp.item)],
          threw |-> FALSE]

\* fetchHeadlines of variant 3 whose try block does not cover the parser
fetchHeadlines3NoCatch(resp, s) ==
    IF resp.kind \in {"notOk", "networkException"}
    THEN [s |-> [s EXCEPT !.scrollableText = ErrorText, !.statusBarItem = ErrorText],
          threw |-> FALSE]
    ELSE IF resp.kind = "parserException"
    THEN [s |-> s, threw |-> TRUE]
    ELSE [s |-> [s EXCEPT !.scrollableText = DisplayText(resp.item),
                          !.statusBarItem =
                              IF s.statusBarItem # IntroText /\ s.statusBarItem # FetchingText
                              THEN DisplayText(resp.item) ELSE s.statusBarItem],
          threw |-> FALSE]

\* variant 3: the success path keeps the intro and the fetching message
fetchHeadlines3(resp, s) ==
    IF resp.kind = "notOk"
    THEN [s |-> [s EXCEPT !.scrollableText = ErrorText, !.statusBarItem = ErrorText],
          threw |-> FALSE]
    ELSE IF resp.kind \in {"networkException", "parserException"}
    THEN \* catch (error)
         [s |-> [s EXCEPT !.scrollableText = ErrorText, !.statusBarItem = ErrorText],
          threw |-> FALSE]
    ELSE [s |-> [s EXCEPT !.scrollableText = DisplayText(resp.item),
                          !.statusBarItem =
                              IF s.statusBarItem # IntroText /\ s.statusBarItem # FetchingText
                              THEN DisplayText(resp.item) ELSE s.statusBarItem],
          threw |-> FALSE]

fetchHeadlines(v, resp, s) ==
    IF v = 1 THEN fetchHeadlines1(resp, s) ELSE fetchHeadlines3(resp, s)

---------------------------------------------------------------------------
(* The scroll renderer of variants 1 and 3 *)

\* startScrolling that installs its interval without cancelling the active one
startScrollingNoClear(s) ==
    LET handle == NewTimer(s.scrollTimers \cup {s.scrollInterval})
    IN [s EXCEPT !.scrollTimers = s.scrollTimers \cup {handle},
                 !.scrollIndex = 0,
                 !.scrollInterval = handle,
                 !.isCurrentlyScrolling = TRUE]

\* startScrolling that keeps the cursor where it was
startScrollingNoReset(s) ==
    LET cleared == IF s.scrollInterval # Undefined
                   THEN clearInterval(s.scrollTimers, s.scrollInterval)
                   ELSE s.scrollTimers
        handle == NewTimer(cleared \cup {s.scrollInterval})
    IN [s EXCEPT !.scrollTimers = cleared \cup {handle},
                 !.scrollInterval = handle,
                 !.isCurrentlyScrolling = TRUE]

startScrolling(s) ==
    LET cleared == IF s.scrollInterval # Undefined
                   THEN clearInterval(s.scrollTimers, s.scrollInterval)
                   ELSE s.scrollTimers
        handle == NewTimer(cleared \cup {s.scrollInterval})
    IN [s EXCEPT !.scrollTimers = cleared \cup {handle},
                 !.scrollIndex = 0,
                 !.scrollInterval = handle,
                 !.isCurrentlyScrolling = TRUE]

\* a stopScrolling that resets the status bar to the full stored text
stopScrollingShowsFullText(s) ==
    [s EXCEPT !.scrollTimers = clearInterval(s.scrollTimers, s.scrollInterval),
              !.scrollInterval = Undefined,
              !.isCurrentlyScrolling = FALSE,
              !.statusBarItem = s.scrollableText]

stopScrolling(s) ==
    IF s.scrollInterval # Undefined
    THEN [s EXCEPT !.scrollTimers = clearInterval(s.scrollTimers, s.scrollInterval),
                   !.scrollInterval = Undefined,
                   !.isCurrentlyScrolling = FALSE]
    ELSE [s EXCEPT !.isCurrentlyScrolling = FALSE]

\* the tick without the padding step
PadForScrollingNone(text) == text

\* lines 75-76: pad a short non-empty text with spaces
PadForScrolling(text) ==
    IF Len(text) > 0 /\ Len(text) < minLengthForScrolling
    THEN text \o Spaces(minLengthForScrolling - Len(text))
    ELSE text

\* a view that drops the part of the text before the offset
RotatedViewTail(textToScroll, index) ==
    LET start == index % Len(textToScroll)
    IN SubstringFrom(textToScroll, start)

\* the two substrings concatenated in the wrong order
RotatedViewSwapped(textToScroll, index) ==
    LET start == index % Len(textToScroll)
    IN SubstringTo(textToScroll, start) \o SubstringFrom(textToScroll, start)

\* lines 83-84: the rotated view
RotatedView(textToScroll, index) ==
    LET start == index % Len(textToScroll)
    IN SubstringFrom(textToScroll, start) \o SubstringTo(textToScroll, start)

\* the increment without the wrap to 0
NextScrollIndexNoWrap(textToScroll, index) == index + 1

\* lines 85-89: increment and wrap
NextScrollIndex(textToScroll, index) ==
    IF index + 1 >= Len(textToScroll) THEN 0 ELSE index + 1

\* a tick callback that keeps rendering the text stored when the extension
\* was activated
scrollTickSnapshot(s) ==
    LET textToScroll == PadForScrolling(IntroText)
    IN [s EXCEPT !.statusBarItem = RotatedView(textToScroll, s.scrollIndex),
                 !.scrollIndex = NextScrollIndex(textToScroll, s.scrollIndex)]

\* the setInterval callback
scrollTick(s) ==
    LET textToScroll == PadForScrolling(s.scrollableText)
    IN IF Len(s.scrollableText) = 0
       THEN [s EXCEPT !.statusBarItem = <<>>]
       ELSE [s EXCEPT !.statusBarItem = RotatedView(textToScroll, s.scrollIndex),
                      !.scrollIndex = NextScrollIndex(textToScroll, s.scrollIndex)]

\* fetchHeadlinesAndScroll up to its await
beginFetch(s) == [s EXCEPT !.statusBarItem = FetchingText]

\* fetchHeadlinesAndScroll after its await
resumeAfterFetch(s) ==
    IF /\ Len(s.scrollableText) > 0
       /\ s.scrollableText # ErrorText
       /\ s.scrollableText # NoHeadlinesText
    THEN startScrolling(s)
    ELSE IF s.isCurrentlyScrolling THEN stopScrolling(s) ELSE s

---------------------------------------------------------------------------
(* Variant 2: the per-headline scroller *)

\* lines 218-225: titles with a dash entry between neighbours
RECURSIVE ProcessedHeadlines(_)
ProcessedHeadlines(titles) ==
    IF Len(titles) = 0 THEN <<>>
    ELSE IF Len(titles) = 1 THEN <<titles[1]>>
    ELSE <<titles[1], Str(Dash)>> \o ProcessedHeadlines(Tail(titles))

\* lines 213-232: the headline list of a parsed feed
HeadlineList(item) ==
    LET processed == IF HasItem(item)
                     THEN ProcessedHeadlines(TitlesOf(ItemsOf(item)))
                     ELSE <<>>
    IN IF Len(processed) > 0 THEN processed ELSE <<Str(NoHeadlinesText)>>

\* statusBarItem.text = value, for a value of any type
TextOf(value) == JoinString(value)

fetchHeadlines2(resp, s) ==
    IF resp.kind = "notOk"
    THEN [s |-> [s EXCEPT !.headlines = <<Str(ErrorText)>>, !.statusBarItem = ErrorText],
          threw |-> FALSE]
    ELSE IF resp.kind \in {"networkException", "parserException"}
    THEN \* catch (error)
         [s |-> [s EXCEPT !.headlines = <<Str(ErrorText)>>, !.statusBarItem = ErrorText],
          threw |-> FALSE]
    ELSE [s |-> [s EXCEPT !.headlines = HeadlineList(resp.item),
                          !.currentHeadlineIndex = 0,
                          !.statusBarItem = TextOf(HeadlineList(resp.item)[1])],
          threw |-> FALSE]

\* lines 262-292: no reset of scrollIndex
startScrolling2(s) ==
    LET cleared == IF s.scrollInterval # Undefined
                   THEN clearInterval(s.scrollTimers, s.scrollInterval)
                   ELSE s.scrollTimers
        handle == NewTimer(cleared \cup {s.scrollInterval})
    IN [s EXCEPT !.scrollTimers = cleared \cup {handle},
                 !.scrollInterval = handle,
                 !.isCurrentlyScrolling = TRUE]

\* a stopScrolling that cancels the timer and leaves the flag set
stopScrolling2KeepsFlag(s) ==
    [s EXCEPT !.scrollTimers = clearInterval(s.scrollTimers, s.scrollInterval),
              !.scrollInterval = Undefined]

\* lines 294-301
stopScrolling2(s) ==
    IF s.scrollInterval # Undefined
    THEN [s EXCEPT !.scrollTimers = clearInterval(s.scrollTimers, s.scrollInterval),
                   !.scrollInterval = Undefined,
                   !.isCurrentlyScrolling = FALSE]
    ELSE [s EXCEPT !.isCurrentlyScrolling = FALSE]

\* lines 275-277: every short entry is padded, the empty one too
PadForScrolling2(text) ==
    IF Len(text) < minLengthForScrolling
    THEN text \o Spaces(minLengthForScrolling - Len(text))
    ELSE text

\* lines 266-289: the setInterval callback; reading .length of an entry
\* that is no string throws, which ends the callback
scrollTick2(s) ==
    IF Len(s.headlines) = 0
    THEN [s EXCEPT !.statusBarItem = NoHeadlinesShortText]
    ELSE LET entry == s.headlines[s.currentHeadlineIndex + 1]
             textToScroll == PadForScrolling2(entry.chars)
             wrap == s.scrollIndex + 1 >= Len(textToScroll)
         IN IF entry.kind # "string" THEN s
            ELSE [s EXCEPT !.statusBarItem = RotatedView(textToScroll, s.scrollIndex),
                           !.scrollIndex = IF wrap THEN 0 ELSE s.scrollIndex + 1,
                           !.currentHeadlineIndex =
                               IF wrap THEN (s.currentHeadlineIndex + 1) % Len(s.headlines)
                               ELSE s.currentHeadlineIndex]

---------------------------------------------------------------------------
(* Inputs the environment chooses *)

\* values the feedTopic setting takes in the scheduling specification
ConfigTopics == {"News", "World"}

\* values of the setting: the table's keys, a name the table lacks, and a
\* name every object inherits
SettingValues ==
    {"News", "World", "Business", "Science", "Culture", "Sports", "toString"}

\* responses a fetch meets in the scheduling specification
Responses ==
    {NotOk, ParserException,
     Ok(NoItem),
     Ok(ItemArray(<<TitleA, UndefinedTitle, TitleB>>)),
     Ok(OneItem(LongTitle)),
     Ok(OneItem(TitleEmpty))}

\* title values of the feeds in the reduction specification
TitleValues == {UndefinedTitle, NullTitle, TitleA, TitleB}

TitleLists == UNION {[1..n -> TitleValues] : n \in 1..MaxItems}

\* responses a fetch meets in the reduction specification
AllResponses ==
    {NotOk, NetworkException, ParserException, Ok(NoItem)}
    \cup {Ok(OneItem(t)) : t \in TitleValues}
    \cup {Ok(ItemArray(ts)) : ts \in TitleLists}

Fetch(caller, url) == [caller |-> caller, url |-> url]

PendingCount == BagCardinality(pending)

\* pending fetches whose continuation installs a refetch interval
Installers == {f \in BagToSet(pending) : f.caller \in {"intro", "config"}}
InstallerCount == BagCardinality([f \in Installers |-> pending[f]])

\* ticks since the last startScrolling, after a handler took s0 to s1
TicksAfter(s0, s1) ==
    IF s1.scrollInterval # Undefined /\ s1.scrollInterval # s0.scrollInterval
    THEN 0 ELSE ticks

---------------------------------------------------------------------------
(* activate(), variants 1 and 3: the state when activate returns *)

Activated ==
    startScrolling(
        [scrollableText |-> IntroText,
         statusBarItem |-> IntroText,
         scrollIndex |-> 0,
         scrollInterval |-> Undefined,
         isCurrentlyScrolling |-> FALSE,
         scrollTimers |-> {},
         headlines |-> <<>>,
         currentHeadlineIndex |-> 0])

InitWith(variants, topics) ==
    /\ variant \in variants
    /\ feedTopic \in (IF variant = 3 THEN topics ELSE {"News"})
    /\ scrollableText = Activated.scrollableText
    /\ statusBarItem = Activated.statusBarItem
    /\ scrollIndex = Activated.scrollIndex
    /\ scrollInterval = Activated.scrollInterval
    /\ isCurrentlyScrolling = Activated.isCurrentlyScrolling
    /\ scrollTimers = Activated.scrollTimers
    /\ headlines = Activated.headlines
    /\ currentHeadlineIndex = Activated.currentHeadlineIndex
    /\ refetchInterval = Undefined
    /\ refetchTimers = {}
    /\ initialFetchTimeout = "pending"
    /\ subscriptions =
           {"statusBarItem", "initialFetchTimeout", "scrollInterval"}
           \cup (IF variant = 3 THEN {"onDidChangeConfiguration"} ELSE {})
    /\ disposed = FALSE
    /\ pending = EmptyBag
    /\ ticks = 0
    /\ lastResponse = NoResponse
    /\ fetchThrew = FALSE
    /\ entryFromStart = TRUE
    /\ lastEvent = <<"activate">>

\* activate(), variant 2: the state at its await of the first fetchHeadlines
InitNYT ==
    /\ variant = 2
    /\ feedTopic = "News"
    /\ scrollableText = <<>>
    /\ statusBarItem = HelloWorldText
    /\ scrollIndex = 0
    /\ scrollInterval = Undefined
    /\ isCurrentlyScrolling = FALSE
    /\ scrollTimers = {}
    /\ headlines = <<Str(LoadingText)>>
    /\ currentHeadlineIndex = 0
    /\ refetchInterval = Undefined
    /\ refetchTimers = {}
    /\ initialFetchTimeout = "none"
    /\ subscriptions = {"helloWorld", "statusBarItem", "toggleScroll", "toggleButton"}
    /\ disposed = FALSE
    /\ pending = SetToBag({Fetch("activate", RssFeedUrl(2))})
    /\ ticks = 0
    /\ lastResponse = NoResponse
    /\ fetchThrew = FALSE
    /\ entryFromStart = TRUE
    /\ lastEvent = <<"activate">>

InitNPR == InitWith({1, 3}, ConfigTopics)

\* variant 3 activated under any value of the feedTopic setting
InitUrl == InitWith({3}, SettingValues)

Init == InitNPR \/ InitNYT

---------------------------------------------------------------------------
(* Handlers of variants 1 and 3 *)

\* the scroll interval fires (followed for at most n ticks after a start)
ScrollTickUpTo(n) ==
    /\ variant \in {1, 3}
    /\ \E h \in scrollTimers : TRUE
    /\ ticks < n
    /\ Install(scrollTick(Cur))
    /\ ticks' = ticks + 1
    /\ lastEvent' = <<"tick">>
    /\ UNCHANGED <<variant, entryFromStart, refetchInterval, feedTopic,
                   refetchTimers,
                   initialFetchTimeout, subscriptions, disposed, pending,
                   lastResponse, fetchThrew>>

\* the initialFetchTimeout callback, up to its await
IntroTimeout ==
    /\ variant \in {1, 3}
    /\ initialFetchTimeout = "pending"
    /\ initialFetchTimeout' = "fired"
    /\ Install(beginFetch(stopScrolling(Cur)))
    /\ pending' = pending (+) SetToBag({Fetch("intro", CurrentRssFeedUrl(variant, feedTopic))})
    /\ lastEvent' = <<"introTimeout">>
    /\ UNCHANGED <<variant, entryFromStart, refetchInterval, feedTopic,
                   refetchTimers,
                   subscriptions, disposed, ticks, lastResponse, fetchThrew>>

\* the refetchInterval callback, up to its await
RefetchTick ==
    /\ variant \in {1, 3}
    /\ \E h \in refetchTimers : TRUE
    /\ PendingCount < MaxPending
    /\ Install(beginFetch(IF isCurrentlyScrolling THEN stopScrolling(Cur) ELSE Cur))
    /\ pending' = pending (+) SetToBag({Fetch("refetch", CurrentRssFeedUrl(variant, feedTopic))})
    /\ lastEvent' = <<"refetchTick">>
    /\ UNCHANGED <<variant, entryFromStart, refetchInterval, feedTopic,
                   refetchTimers,
                   initialFetchTimeout, subscriptions, disposed, ticks,
                   lastResponse, fetchThrew>>

\* the onDidChangeConfiguration handler, up to its await
ConfigChangeTo(topics) ==
    /\ variant = 3
    /\ ~disposed
    /\ PendingCount < MaxPending
    /\ Cardinality(clearInterval(refetchTimers, refetchInterval)) + InstallerCount < MaxTimers
    /\ \E topic \in topics \ {feedTopic} :
        /\ feedTopic' = topic
        /\ pending' = pending (+) SetToBag({Fetch("config", CurrentRssFeedUrl(variant, topic))})
    /\ Install(beginFetch(IF isCurrentlyScrolling THEN stopScrolling(Cur) ELSE Cur))
    /\ refetchTimers' = IF refetchInterval # Undefined
                        THEN clearInterval(refetchTimers, refetchInterval)
                        ELSE refetchTimers
    /\ initialFetchTimeout' = IF initialFetchTimeout = "pending" THEN "cleared"
                              ELSE initialFetchTimeout
    /\ lastEvent' = <<"configChange">>
    /\ UNCHANGED <<variant, entryFromStart, refetchInterval, subscriptions,
                   disposed, ticks,
                   lastResponse, fetchThrew>>

ConfigChange == ConfigChangeTo(ConfigTopics)

\* the setting is free text in settings.json: any string can arrive
ConfigChangeAny == ConfigChangeTo(SettingValues)

\* a caller that installs no refetch timer after its fetch
InstallRefetchNever(caller) ==
    UNCHANGED <<refetchTimers, refetchInterval, subscriptions>>

\* what the caller of fetchHeadlinesAndScroll does once it has resolved
InstallRefetch(caller) ==
    LET handle == NewTimer(refetchTimers \cup {refetchInterval})
    IN CASE caller = "intro" ->
              /\ refetchTimers' =
                     (IF refetchInterval # Undefined
                      THEN clearInterval(refetchTimers, refetchInterval)
                      ELSE refetchTimers) \cup {handle}
              /\ refetchInterval' = handle
              /\ subscriptions' = subscriptions \cup {"refetchInterval"}
         [] caller = "config" ->
              /\ refetchTimers' = refetchTimers \cup {handle}
              /\ refetchInterval' = handle
              /\ UNCHANGED subscriptions
         [] OTHER -> UNCHANGED <<refetchTimers, refetchInterval, subscriptions>>

\* a pending fetch gets its response: fetchHeadlines finishes, then
\* fetchHeadlinesAndScroll, then the handler that awaited it
FetchDone(f, resp) ==
    LET r == fetchHeadlines(variant, resp, Cur)
        s1 == IF r.threw THEN r.s ELSE resumeAfterFetch(r.s)
    IN /\ variant \in {1, 3}
       /\ pending' = pending (-) SetToBag({f})
       /\ Install(s1)
       /\ ticks' = TicksAfter(Cur, s1)
       /\ lastResponse' = resp
       /\ fetchThrew' = (fetchThrew \/ r.threw)
       /\ IF r.threw
          THEN UNCHANGED <<refetchTimers, refetchInterval, subscriptions>>
          ELSE InstallRefetch(f.caller)
       /\ lastEvent' = <<"fetchDone", f.caller, f.url>>
       /\ UNCHANGED <<variant, entryFromStart, feedTopic,
                      initialFetchTimeout, disposed>>

ScrollTick == ScrollTickUpTo(MaxTicks)

ScrollTickLong == ScrollTickUpTo(MaxScrollTicks)

FetchComplete == \E f \in BagToSet(pending) : \E resp \in Responses : FetchDone(f, resp)

---------------------------------------------------------------------------
(* Handlers of variant 2 *)

\* a tick that moves the cursor back to 0 makes an entry the current one;
\* a tick that throws renders nothing
EntryFromStartAfterTick(s0, s1) ==
    IF s1.scrollIndex = 0 /\ s1 # s0 THEN TRUE ELSE entryFromStart

ScrollTickNYTUpTo(n) ==
    /\ variant = 2
    /\ \E h \in scrollTimers : TRUE
    /\ ticks < n
    /\ Install(scrollTick2(Cur))
    /\ entryFromStart' = EntryFromStartAfterTick(Cur, scrollTick2(Cur))
    /\ ticks' = ticks + 1
    /\ lastEvent' = <<"tick">>
    /\ UNCHANGED <<variant, refetchInterval, feedTopic, refetchTimers,
                   initialFetchTimeout, subscriptions, disposed, pending,
                   lastResponse, fetchThrew>>

ScrollTickNYT == ScrollTickNYTUpTo(MaxTicks)

\* the toggleScroll command
toggleScroll(s) == IF s.isCurrentlyScrolling THEN stopScrolling2(s) ELSE startScrolling2(s)

ToggleScroll ==
    /\ variant = 2
    /\ ~disposed
    /\ Install(toggleScroll(Cur))
    /\ ticks' = TicksAfter(Cur, toggleScroll(Cur))
    /\ lastEvent' = <<"toggle">>
    /\ UNCHANGED <<variant, entryFromStart, refetchInterval, feedTopic,
                   refetchTimers,
                   initialFetchTimeout, subscriptions, disposed, pending,
                   lastResponse, fetchThrew>>

\* activate() from its await on: lines 320-330
FetchDoneNYT(f, resp) ==
    LET r == fetchHeadlines2(resp, Cur)
        s1 == IF r.threw THEN r.s ELSE startScrolling2(r.s)
    IN /\ variant = 2
       /\ pending' = pending (-) SetToBag({f})
       /\ Install(s1)
       /\ ticks' = TicksAfter(Cur, s1)
       /\ lastResponse' = resp
       /\ fetchThrew' = (fetchThrew \/ r.threw)
       /\ entryFromStart' = (s1.scrollIndex = 0)
       /\ subscriptions' = IF r.threw THEN subscriptions
                           ELSE subscriptions \cup {"scrollInterval"}
       /\ lastEvent' = <<"fetchDone", f.caller, f.url>>
       /\ UNCHANGED <<variant, refetchInterval, feedTopic, refetchTimers,
                      initialFetchTimeout, disposed>>

FetchCompleteNYT ==
    \E f \in BagToSet(pending) : \E resp \in Responses : FetchDoneNYT(f, resp)

\* shutdown: every disposable of context.subscriptions runs
Dispose ==
    /\ ~disposed
    /\ disposed' = TRUE
    /\ initialFetchTimeout' =
           IF "initialFetchTimeout" \in subscriptions /\ initialFetchTimeout = "pending"
           THEN "cleared" ELSE initialFetchTimeout
    /\ scrollTimers' =
           IF "scrollInterval" \in subscriptions /\ scrollInterval # Undefined
           THEN clearInterval(scrollTimers, scrollInterval) ELSE scrollTimers
    /\ refetchTimers' =
           IF "refetchInterval" \in subscriptions /\ refetchInterval # Undefined
           THEN clearInterval(refetchTimers, refetchInterval) ELSE refetchTimers
    /\ lastEvent' = <<"dispose">>
    /\ UNCHANGED <<variant, entryFromStart, scrollableText, statusBarItem,
                   scrollIndex,
                   scrollInterval, refetchInterval, isCurrentlyScrolling,
                   headlines, currentHeadlineIndex, feedTopic, subscriptions,
                   pending, ticks, lastResponse, fetchThrew>>

Next ==
    \/ ScrollTick
    \/ IntroTimeout
    \/ RefetchTick
    \/ ConfigChange
    \/ FetchComplete
    \/ ScrollTickNYT
    \/ ToggleScroll
    \/ FetchCompleteNYT
    \/ Dispose

Spec == Init /\ [][Next]_vars

\* the renderer followed through whole rotations, the topic left alone
NextScroll ==
    \/ ScrollTickLong
    \/ IntroTimeout
    \/ RefetchTick
    \/ FetchComplete
    \/ Dispose

SpecScroll == InitNPR /\ [][NextScroll]_vars

\* the first fetch cycle of each variant, over every feed of the bounded set
FetchCompleteAny ==
    \E f \in BagToSet(pending) : \E resp \in AllResponses : FetchDone(f, resp)

FetchCompleteNYTAny ==
    \E f \in BagToSet(pending) : \E resp \in AllResponses : FetchDoneNYT(f, resp)

NextFetch ==
    \/ IntroTimeout
    \/ FetchCompleteAny
    \/ FetchCompleteNYTAny

SpecFetch == Init /\ [][NextFetch]_vars

\* variant 2 with ticks enough for full turns of an entry
ScrollTickNYTLong == ScrollTickNYTUpTo(MaxScrollTicks)

NextNYT ==
    \/ ScrollTickNYTLong
    \/ ToggleScroll
    \/ FetchCompleteNYT
    \/ Dispose

SpecNYT == InitNYT /\ [][NextNYT]_vars

\* variant 3 under every value of the setting, without ticks
NextUrl ==
    \/ IntroTimeout
    \/ ConfigChangeAny
    \/ FetchComplete

SpecUrl == InitUrl /\ [][NextUrl]_vars

---------------------------------------------------------------------------
(* Properties *)

NPR == variant \in {1, 3}

FetchJustDone == lastEvent[1] = "fetchDone"

FetchDoneBy(caller) == FetchJustDone /\ lastEvent[2] = caller

\* C1: at most one scroll timer is live in every reachable state, and it is
\* the one the scrollInterval variable holds: startScrolling cancels the
\* active timer before it installs a new one.
AtMostOneScrollTimer ==
    /\ Cardinality(scrollTimers) <= 1
    /\ scrollTimers \subseteq {scrollInterval}

\* startScrolling ran while a scroll timer was active: the handle held is the
\* second one, and it is the only live one
RestartedOverActiveTimer ==
    /\ ~disposed
    /\ FetchJustDone
    /\ scrollInterval = 2
    /\ scrollTimers = {2}

\* C2: in variants 1 and 3, while a fetch is pending no scroll timer is live.
NoScrollWhileFetchPending ==
    (NPR /\ PendingCount > 0) => scrollTimers = {}

\* C3: in variants 1 and 3, once the subscriptions have been disposed no
\* scroll timer, no refetch timer and no intro timeout is live.
NoTimerAfterShutdown ==
    (NPR /\ disposed) =>
        /\ scrollTimers = {}
        /\ refetchTimers = {}
        /\ initialFetchTimeout # "pending"

ErrorKinds == {"notOk", "networkException", "parserException"}

\* C4: fetchHeadlines never rejects, and after a response that is not ok, a
\* network exception or a parser exception the stored text is
\* "Error fetching headlines".
FetchNeverThrows ==
    /\ ~fetchThrew
    /\ (NPR /\ FetchJustDone /\ lastResponse.kind \in ErrorKinds)
           => scrollableText = ErrorText

\* a fetch of variant 3 ended in a parser exception
ParserExceptionHandled ==
    /\ variant = 3
    /\ FetchJustDone
    /\ lastResponse.kind = "parserException"
    /\ scrollableText = ErrorText

\* the titles of a feed that are present: neither undefined nor null
PresentTitles(item) ==
    LET all == IF item.shape = "array"
               THEN [i \in 1..Len(item.array) |-> item.array[i].title]
               ELSE <<item.object.title>>
    IN SelectSeq(all, LAMBDA t : t.kind = "string")

\* ts[1].chars, then for each further title the separator and its characters
RECURSIVE JoinedUpTo(_, _)
JoinedUpTo(ts, n) ==
    IF n = 0 THEN <<>>
    ELSE IF n = 1 THEN ts[1].chars
    ELSE JoinedUpTo(ts, n - 1) \o <<" ", EmDash, " ">> \o ts[n].chars

\* C5: after a successful fetch of a feed with at least one present title,
\* the stored text is the present titles joined with " - " (em dash) in
\* document order; undefined and null titles contribute nothing.
JoinsPresentTitles ==
    (/\ NPR
     /\ FetchJustDone
     /\ lastResponse.kind = "ok"
     /\ lastResponse.item.shape # "absent"
     /\ Len(PresentTitles(lastResponse.item)) > 0)
        => scrollableText =
               JoinedUpTo(PresentTitles(lastResponse.item),
                          Len(PresentTitles(lastResponse.item)))

\* every item of the feed lacks the title property
NoItemHasTitle(item) ==
    \/ item.shape = "absent"
    \/ item.shape = "object" /\ item.object.title.kind = "undefined"
    \/ item.shape = "array"
           /\ \A i \in 1..Len(item.array) : item.array[i].title.kind = "undefined"

PaddedText(text) ==
    [i \in 1..(IF Len(text) > 0 /\ Len(text) < minLengthForScrolling
               THEN minLengthForScrolling ELSE Len(text))
        |-> IF i <= Len(text) THEN text[i] ELSE " "]

\* p circularly rotated left by k places, character by character
RotatedLeft(p, k) == [i \in 1..Len(p) |-> p[((i - 1 + k) % Len(p)) + 1]]

ShortText == <<"A", " ", EmDash, " ", "B">>

\* C7 as stated: in every reachable state of variants 1 and 3 the cursor
\* satisfies 0 <= cursor < length(paddedText) (taken here for a non-empty
\* stored text, whose padded length is positive).
CursorInRange ==
    (NPR /\ Len(scrollableText) > 0) =>
        /\ 0 <= scrollIndex
        /\ scrollIndex < Len(PaddedText(scrollableText))

\* C7 as amended: the cursor is never negative, and while a scroll timer is
\* live it is below the length of the padded current text.
CursorInRangeWhileScrolling ==
    NPR => /\ 0 <= scrollIndex
           /\ scrollTimers # {} => scrollIndex < Len(PaddedText(scrollableText))

\* a refetch has just installed the short text and restarted the scroll
ShorterTextInstalledWhileScrolling ==
    /\ NPR
    /\ FetchDoneBy("refetch")
    /\ scrollableText = ShortText
    /\ scrollTimers # {}
    /\ scrollIndex < Len(PaddedText(scrollableText))

\* a step in which startScrolling installed a new interval
Started == scrollInterval' # Undefined /\ scrollInterval' # scrollInterval

\* C8 as stated: every call to startScrolling resets the cursor to 0.
StartResetsCursor == [][Started => scrollIndex' = 0]_vars

\* C8 as amended: in variants 1 and 3 every call to startScrolling resets
\* the cursor to 0 and the first tick after it renders the padded text
\* unrotated; in variant 2 startScrolling leaves the cursor where it was.
StartResetsCursorNPR ==
    [][/\ (NPR /\ Started) => scrollIndex' = 0
       /\ (variant = 2 /\ Started) => scrollIndex' = scrollIndex
       /\ (NPR /\ lastEvent' = <<"tick">> /\ ticks = 0 /\ Len(scrollableText) > 0)
              => statusBarItem' = PaddedText(scrollableText)]_vars

\* scrolling has just been restarted by the completion of a refetch
RestartedAfterRefetch ==
    /\ NPR
    /\ FetchDoneBy("refetch")
    /\ scrollTimers # {}
    /\ ticks = 0
    /\ scrollIndex = 0

\* C9: in variants 1 and 3, for a non-empty text, tick number k after a
\* start (k = 0, 1, ...) renders the padded text rotated left by k mod L.
RotationByTickNumber ==
    (NPR /\ lastEvent = <<"tick">> /\ Len(scrollableText) > 0) =>
        statusBarItem =
            RotatedLeft(PaddedText(scrollableText),
                        (ticks - 1) % Len(PaddedText(scrollableText)))

\* tick number L has rendered the same value as tick 0
FullTurnRendered ==
    /\ NPR
    /\ lastEvent = <<"tick">>
    /\ Len(scrollableText) > minLengthForScrolling
    /\ ticks = Len(scrollableText) + 1
    /\ statusBarItem = scrollableText

\* C10: in variants 1 and 3 a tick leaves the stored text unchanged; what it
\* renders for a non-empty text has length 40 if the text is shorter than 40
\* and the length of the text otherwise, and is the text followed by spaces
\* only, rotated by the cursor.
TickPadsForRenderingOnly ==
    [][(NPR /\ lastEvent' = <<"tick">>) =>
          /\ scrollableText' = scrollableText
          /\ Len(scrollableText) > 0 =>
               LET n == Len(scrollableText)
                   L == IF n < minLengthForScrolling THEN minLengthForScrolling ELSE n
                   start == scrollIndex % L
               IN /\ Len(statusBarItem') = L
                  /\ \A i \in 1..L :
                        statusBarItem'[((i - 1 - start + L) % L) + 1] =
                            IF i <= n THEN scrollableText[i] ELSE " "]_vars

\* a tick has rendered the five-character text at width 40
ShortTextRendered ==
    /\ NPR
    /\ lastEvent = <<"tick">>
    /\ scrollableText = ShortText
    /\ Len(statusBarItem) = minLengthForScrolling
    /\ ticks > 1

StopCallers == {<<"introTimeout">>, <<"refetchTick">>, <<"configChange">>}

\* C11: in variants 1 and 3 stopScrolling, called in any reachable state,
\* leaves the status bar, the stored text and the cursor as they are, leaves
\* no scroll timer live, unsets the handle and the scrolling flag; called in
\* a stopped state it changes nothing, and calling it twice is the same as
\* calling it once. The handlers that call it leave the scroller stopped.
StopScrollingIsSafe ==
    NPR =>
       LET s == stopScrolling(Cur)
       IN /\ s.statusBarItem = statusBarItem
          /\ s.scrollableText = scrollableText
          /\ s.scrollIndex = scrollIndex
          /\ ~disposed => s.scrollTimers = {}
          /\ s.scrollTimers \subseteq scrollTimers
          /\ s.scrollInterval = Undefined
          /\ ~s.isCurrentlyScrolling
          /\ (scrollInterval = Undefined /\ ~isCurrentlyScrolling) => s = Cur
          /\ stopScrolling(s) = s
          /\ lastEvent \in StopCallers =>
                /\ scrollTimers = {}
                /\ scrollInterval = Undefined
                /\ ~isCurrentlyScrolling

\* the refetch tick has stopped a scroller whose cursor had advanced
StoppedMidRotation ==
    /\ NPR
    /\ lastEvent = <<"refetchTick">>
    /\ scrollIndex > 0
    /\ scrollTimers = {}
    /\ scrollInterval = Undefined
    /\ ~isCurrentlyScrolling
    /\ ~disposed

Sentinels == {ErrorText, NoHeadlinesText}

FetchFailed == FetchJustDone /\ scrollableText \in Sentinels

\* C12 as stated: in variants 1 and 3, before shutdown, when a fetch cycle
\* has ended in "Error fetching headlines" or "No headlines found", a
\* refetch timer is armed.
RefetchTimerArmedAfterFailure ==
    (NPR /\ ~disposed /\ FetchFailed) => refetchTimers # {}

\* C12 amended: in variants 1 and 3, before shutdown, when a fetch cycle has
\* ended in "Error fetching headlines" or "No headlines found", a refetch
\* timer is armed, or a fetch of the intro callback or of the configuration
\* handler is still pending, whose caller arms one when it resumes; when
\* the failed fetch was the one of such a caller, the timer is armed.
RefetchArmedOrPendingAfterFailure ==
    (NPR /\ ~disposed /\ FetchFailed) =>
        /\ refetchTimers # {} \/ InstallerCount > 0
        /\ lastEvent[2] \in {"intro", "config"} =>
              /\ refetchInterval \in refetchTimers
              /\ refetchInterval # Undefined

\* the first fetch after the intro has failed and the refetch timer is armed
FirstFetchFailedTimerArmed ==
    /\ NPR
    /\ ~disposed
    /\ FetchDoneBy("intro")
    /\ scrollableText = ErrorText
    /\ statusBarItem = ErrorText
    /\ refetchInterval \in refetchTimers
    /\ PendingCount = 0

TopicTable ==
    [t \in {"News", "World", "Business", "Science", "Culture"} |->
        CASE t = "News" -> "1001"
          [] t = "World" -> "1004"
          [] t = "Business" -> "1006"
          [] t = "Science" -> "1007"
          [] t = "Culture" -> "1008"]

TableUrl(topic) ==
    <<"https://feeds.npr.org/",
      IF topic \in DOMAIN TopicTable THEN TopicTable[topic] ELSE TopicTable["News"],
      "/rss.xml">>

\* C13: the fetch a handler of variant 3 has just issued goes to
\* https://feeds.npr.org/<id>/rss.xml, where <id> is the table's entry for
\* the configured topic (News 1001, World 1004, Business 1006, Science
\* 1007, Culture 1008), and the News entry for every topic name that is
\* not a key of the table.
TopicUrlFromTable ==
    (variant = 3 /\ lastEvent \in {<<"introTimeout">>, <<"configChange">>}) =>
        \E f \in BagToSet(pending) :
            /\ f.caller = (IF lastEvent = <<"introTimeout">> THEN "intro" ELSE "config")
            /\ f.url = TableUrl(feedTopic)

\* C14: in every reachable state of variants 1 and 3 at most one refetch
\* timer is live, also when configuration changes overlap each other or the
\* intro callback.
AtMostOneRefetchTimer ==
    NPR => Cardinality(refetchTimers) <= 1

\* C15: in variants 1 and 3, when fetchHeadlinesAndScroll has completed with
\* "Error fetching headlines" or "No headlines found", scrolling is stopped
\* and the status bar shows exactly that sentinel, not "Fetching latest
\* headlines..."; no tick ever renders a sentinel.
SentinelShownStatically ==
    /\ (NPR /\ FetchFailed) =>
          /\ scrollTimers = {}
          /\ ~isCurrentlyScrolling
          /\ statusBarItem = scrollableText
    /\ (NPR /\ lastEvent = <<"tick">>) => scrollableText \notin Sentinels

\* C16: in variant 3, once every pending fetch has resolved, the stored text
\* is the result of a fetch issued to the URL of the topic now configured:
\* the result of a fetch to an earlier topic never stays as the text.
NewTopicResultStored ==
    (variant = 3 /\ FetchJustDone /\ PendingCount = 0) =>
        lastEvent[3] = getRssFeedUrl(feedTopic)

\* C17: in variants 1 and 3 what a tick renders is a rotation of the padded
\* text stored when the tick runs, also when a fetch has replaced the text
\* while a scroll timer was live.
TickRendersStoredText ==
    (NPR /\ lastEvent = <<"tick">> /\ Len(scrollableText) > 0) =>
        \E k \in 0..(Len(PaddedText(scrollableText)) - 1) :
            statusBarItem = RotatedLeft(PaddedText(scrollableText), k)

\* a fetch replaced the text while timer 1 was live, and the first tick
\* after it has rendered the new text
TextReplacedUnderLiveTimer ==
    /\ NPR
    /\ ~disposed
    /\ lastEvent = <<"tick">>
    /\ scrollInterval = 2
    /\ scrollTimers = {2}
    /\ ticks = 1
    /\ scrollableText = LongTitle.chars
    /\ statusBarItem = LongTitle.chars

\* The case of C18, a tick that finds the stored text empty, needs a live
\* scroll timer over an empty text. In variants 1 and 3 no reachable state
\* has one: activation stores the intro text before it starts the timer,
\* and fetchHeadlinesAndScroll starts the timer for a non-empty text only
\* and stops it otherwise.
NoLiveTimerOverEmptyText ==
    (NPR /\ scrollTimers # {}) => Len(scrollableText) > 0

\* C20: before shutdown, in all three variants, isCurrentlyScrolling is true
\* exactly when a scroll timer is live, and exactly when the scrollInterval
\* handle is set; the live timer is the one the handle names.
FlagAgreesWithTimer ==
    ~disposed =>
        /\ isCurrentlyScrolling <=> scrollTimers # {}
        /\ isCurrentlyScrolling <=> scrollInterval # Undefined
        /\ scrollTimers \subseteq {scrollInterval}

\* the toggle command has paused a scroller that had ticked
PausedByToggle ==
    /\ variant = 2
    /\ ~disposed
    /\ lastEvent = <<"toggle">>
    /\ ~isCurrentlyScrolling
    /\ scrollInterval = Undefined
    /\ scrollTimers = {}
    /\ scrollIndex > 0

\* titles of the feed the last fetch parsed
FetchedTitles ==
    IF lastResponse.kind = "ok" /\ HasItem(lastResponse.item)
    THEN TitlesOf(ItemsOf(lastResponse.item))
    ELSE <<>>

\* odd places hold the fetched titles in order, even places the separator,
\* and the list ends with a title
HeadlinesAlternate ==
    LET n == Len(headlines)
    IN /\ n % 2 = 1
       /\ \A i \in 1..n : i % 2 = 0 => headlines[i] = Str(Dash)
       /\ Len(FetchedTitles) > 0 =>
             /\ n = 2 * Len(FetchedTitles) - 1
             /\ \A j \in 1..Len(FetchedTitles) : headlines[2 * j - 1] = FetchedTitles[j]

\* C19: in variant 2 the headline list alternates titles and separators and
\* ends with a title, 0 <= currentHeadlineIndex < length(headlines), and a
\* tick advances the index by one (wrapping to 0 after the last entry)
\* exactly when, with this tick, the current entry has been rendered at
\* every offset of its padded length.
IndexAdvancesAfterFullTurn ==
    [][variant = 2 =>
          /\ HeadlinesAlternate'
          /\ currentHeadlineIndex' \in 0..(Len(headlines') - 1)
          /\ (lastEvent' = <<"tick">> /\
              headlines[currentHeadlineIndex + 1].kind = "string") =>
                LET L == Len(PadForScrolling2(headlines[currentHeadlineIndex + 1].chars))
                    full == entryFromStart /\ scrollIndex = L - 1
                IN IF full
                   THEN currentHeadlineIndex' =
                            (currentHeadlineIndex + 1) % Len(headlines)
                   ELSE /\ currentHeadlineIndex' = currentHeadlineIndex
                        /\ scrollIndex' # 0]_vars

\* C21: in variants 1 and 3, on every tick that finds a non-empty text, with
\* L the padded length of the text stored when the tick runs, the offset
\* cursor mod L lies in 0..L-1, the rendered value has exactly L characters
\* and is the padded text rotated left by that offset, and the cursor the
\* tick leaves lies in 0..L-1; also on the first tick after a fetch has
\* replaced the text by one of another length.
TickOffsetInRange ==
    [][(NPR /\ lastEvent' = <<"tick">> /\ Len(scrollableText) > 0) =>
          LET p == PaddedText(scrollableText)
              L == Len(p)
              offset == scrollIndex % L
          IN /\ offset \in 0..(L - 1)
             /\ Len(statusBarItem') = L
             /\ statusBarItem' = RotatedLeft(p, offset)
             /\ scrollIndex' \in 0..(L - 1)]_vars

\* a fetch installed the short text while timer 1 was live over an earlier
\* fetched text, and the first tick after it has rendered 40 characters
ShortTextTickedAfterReplacement ==
    /\ NPR
    /\ ~disposed
    /\ lastEvent = <<"tick">>
    /\ scrollInterval = 2
    /\ scrollTimers = {2}
    /\ ticks = 1
    /\ scrollIndex = 1
    /\ scrollableText = ShortText
    /\ statusBarItem = PaddedText(ShortText)

====
